---- MODULE Spec2Model ----
(***************************************************************************)
(* Device compute backend of maliG31_Neural_ODEs (version1):               *)
(*   GPUContextManager  - the process-wide singleton device context        *)
(*   GPUBufferManager   - the buffer quadruple of one integration session  *)
(*   GPUEulerBackend    - solve(): context, kernel cache, buffers, loop    *)
(* The host is single-threaded and every call is synchronous, so each      *)
(* public call is one atomic action.                                       *)
(***************************************************************************)
EXTENDS Integers, Sequences, FiniteSets, TLC

(* ------------------------------ bounds --------------------------------- *)
\* y0.size() ranges over 1..MaxEq
MaxEq == 1
\* tf ranges over 0..MaxT (t0 = 0), in ticks
MaxT == 1
\* dt ranges over 1..MaxDt, in ticks
MaxDt == 1
\* number of initialize() calls that reach open("/dev/dri/renderD128")
MaxInitAttempts == 1

\* the comparison runs of the two backends: tf ranges over 0..MaxTf, in ticks
MaxTf == 3
\* the comparison runs: dt ranges over 1..MaxStep, in ticks
MaxStep == 2
\* sessions that follow one another on one backend: y0.size() in 1..MaxDim
MaxDim == 2

\* setup_uniforms: gpu_uniforms.size() ranges over 0..MaxUniforms
MaxUniforms == 17

\* direct compile_compute_shader() calls: at most MaxPrograms live programs
MaxPrograms == 3

\* the step loop: equations and steps of the session it runs
MaxLoopEq == 9
MaxLoopSteps == 3

\* the kernel: STATE entries before a dispatch are 1..MaxStateValue
MaxStateValue == 2

\* one GPUEulerBackend object at a time: the slot is constructed and destroyed
\* any number of times, so instances follow one another
Backends == {"backend"}
\* manager b \in Backends is the buffer_mgr_ member of backend b; one more
\* GPUBufferManager is used directly through its public interface
StandaloneMgr == "direct"
Managers == Backends \cup {StandaloneMgr}

VARIABLES
    ctx,        \* GPUContextManager fields
    dev,        \* live OS / EGL resources: kind -> set of ids
    exited,     \* static destruction of the singleton has run
    alive,      \* backend slot -> constructed?
    cache,      \* backend slot -> shader_cache_ (key -> program, 0 = absent)
    progLive,   \* live GL program names
    mgr,        \* manager -> GPUBufferManager fields
    bufLive,    \* live GL buffers: set of <<creating manager, name>>
    solution,   \* the caller's output vector
    hist,       \* history: facts about the run so far
    last,       \* history: what the last call did
    req,        \* the arguments the driver program passes to the calls it makes
    registry,   \* BuiltinRHSRegistry::registry_ (name -> definition, NoDef = absent)
    shaderLive, \* live GL shader objects
    res         \* what the last direct call of a host-side component returned

vars == <<ctx, dev, exited, alive, cache, progLive, mgr, bufLive, solution, hist, last,
          req, registry, shaderLive, res>>

\* the state of the host-side components and of the driver
aux == <<req, registry, shaderLive, res>>

\* lowest natural >= lo that is not in S (open(2) returns the lowest free
\* descriptor; GL name generation is modelled the same way)
Fresh(S, lo) == CHOOSE n \in lo..(lo + Cardinality(S)) :
                    n \notin S /\ \A k \in lo..(n - 1) : k \in S

(* --------------------------- GPUContextManager ------------------------- *)
NoFd == -1
NoHandle == 0

\* GPUContextManager::GPUContextManager
CtxInit == [initialized |-> FALSE, dri_fd |-> NoFd, gbm |-> NoHandle,
            display |-> NoHandle, context |-> NoHandle]

DevInit == [fd |-> {}, gbm |-> {}, display |-> {}, context |-> {}]

\* the points at which initialize() can return false, in code order;
\* InitOk is the run in which every call succeeds
FailOpen == 1
FailGbm == 2
FailGetDisplay == 3
FailEglInit == 4
FailChooseConfig == 5
FailCreateContext == 6
FailMakeCurrent == 7
InitOk == 8
InitOutcomes == FailOpen..InitOk

\* the acquisition part of initialize(), lines 25-85, from an arbitrary
\* field state: every field the code assigns is overwritten
acquire(c, d, failAt) ==
    LET fd  == Fresh(d.fd, 0)
        g   == Fresh(d.gbm, 1)
        dp  == Fresh(d.display, 1)
        cx  == Fresh(d.context, 1)
        c1  == [c EXCEPT !.dri_fd = IF failAt = FailOpen THEN NoFd ELSE fd]
        d1  == IF failAt = FailOpen THEN d ELSE [d EXCEPT !.fd = @ \cup {fd}]
        c2  == [c1 EXCEPT !.gbm = IF failAt = FailGbm THEN NoHandle ELSE g]
        d2  == IF failAt = FailGbm THEN d1 ELSE [d1 EXCEPT !.gbm = @ \cup {g}]
        c3  == [c2 EXCEPT !.display = IF failAt = FailGetDisplay THEN NoHandle ELSE dp]
        d3  == IF failAt = FailGetDisplay THEN d2 ELSE [d2 EXCEPT !.display = @ \cup {dp}]
        c6  == [c3 EXCEPT !.context = IF failAt = FailCreateContext THEN NoHandle ELSE cx]
        d6  == IF failAt = FailCreateContext THEN d3 ELSE [d3 EXCEPT !.context = @ \cup {cx}]
    IN  IF failAt = FailOpen THEN [ctx |-> c1, dev |-> d1, ret |-> FALSE, acquired |-> 0]
        ELSE IF failAt = FailGbm THEN [ctx |-> c2, dev |-> d2, ret |-> FALSE, acquired |-> 1]
        ELSE IF failAt = FailGetDisplay THEN [ctx |-> c3, dev |-> d3, ret |-> FALSE, acquired |-> 2]
        ELSE IF failAt \in {FailEglInit, FailChooseConfig}
             THEN [ctx |-> c3, dev |-> d3, ret |-> FALSE, acquired |-> 3]
        ELSE IF failAt = FailCreateContext THEN [ctx |-> c6, dev |-> d6, ret |-> FALSE, acquired |-> 3]
        ELSE IF failAt = FailMakeCurrent THEN [ctx |-> c6, dev |-> d6, ret |-> FALSE, acquired |-> 4]
        ELSE [ctx |-> [c6 EXCEPT !.initialized = TRUE], dev |-> d6, ret |-> TRUE, acquired |-> 4]

\* a variant of initialize() without the early return of lines 21-23
initialize_always(c, d, failAt) == acquire(c, d, failAt)

\* GPUContextManager::initialize
initialize(c, d, failAt) ==
    IF c.initialized
    THEN [ctx |-> c, dev |-> d, ret |-> TRUE, acquired |-> 0]
    ELSE acquire(c, d, failAt)

\* the resources initialize() acquires, in the order of lines 26, 33, 40, 70
AcquireOrder == <<"fd", "gbm", "display", "context">>

\* whether the field of c for a kind of resource holds one
Holds(c, kind) ==
    IF kind = "context" THEN c.context # NoHandle
    ELSE IF kind = "display" THEN c.display # NoHandle
    ELSE IF kind = "gbm" THEN c.gbm # NoHandle
    ELSE c.dri_fd >= 0

\* a variant of cleanup() that releases in the order of acquisition
ctx_cleanup_forward(c, d) ==
    [ctx |-> CtxInit,
     released |-> SelectSeq(<<"fd", "gbm", "display", "context">>,
                            LAMBDA kind : Holds(c, kind)),
     dev |-> [fd      |-> d.fd \ {c.dri_fd},
              gbm     |-> d.gbm \ {c.gbm},
              display |-> d.display \ {c.display},
              context |-> d.context \ {c.context}]]

\* GPUContextManager::cleanup: context, display, GBM device, descriptor;
\* released = the kinds released, in the order of the calls
ctx_cleanup(c, d) ==
    [ctx |-> CtxInit,
     released |-> SelectSeq(<<"context", "display", "gbm", "fd">>,
                            LAMBDA kind : Holds(c, kind)),
     dev |-> [fd      |-> d.fd \ {c.dri_fd},
              gbm     |-> d.gbm \ {c.gbm},
              display |-> d.display \ {c.display},
              context |-> d.context \ {c.context}]]

(* --------------------------- GPUBufferManager -------------------------- *)
\* GPUBufferManager::GPUBufferManager
MgrInit == [state_buffer |-> NoHandle, param_buffer |-> NoHandle,
            timeseries_buffer |-> NoHandle, time_control_buffer |-> NoHandle,
            allocated |-> FALSE, n_equations |-> 0, n_timesteps |-> 0]

\* the non-zero handles a manager holds (StandardGPUBuffers)
Handles(mg) == {mg.state_buffer, mg.param_buffer, mg.timeseries_buffer,
                mg.time_control_buffer} \ {NoHandle}

BufNames(live) == {p[2] : p \in live}

\* the live buffers that manager m created
Owned(m) == {p[2] : p \in {q \in bufLive : q[1] = m}}

ZeroHandles(mg) == [mg EXCEPT !.state_buffer = NoHandle, !.param_buffer = NoHandle,
                              !.timeseries_buffer = NoHandle,
                              !.time_control_buffer = NoHandle]

\* a variant of cleanup_buffers() that deletes but does not reset the handles
cleanup_buffers_keep(mg, m, live) ==
    [mgr |-> mg, live |-> live \ ({m} \X Handles(mg)),
     deleted |-> Handles(mg),
     bad |-> \E h \in Handles(mg) : <<m, h>> \notin live]

\* GPUBufferManager::cleanup_buffers: glDeleteBuffers on every non-zero
\* handle, which is then reset; bad = a name was deleted that is not a live
\* buffer of this manager
cleanup_buffers(mg, m, live) ==
    [mgr |-> ZeroHandles(mg), live |-> live \ ({m} \X Handles(mg)),
     deleted |-> Handles(mg),
     bad |-> \E h \in Handles(mg) : <<m, h>> \notin live]

\* GPUBufferManager::cleanup
cleanup(mg, m, live) ==
    LET r == cleanup_buffers(mg, m, live)
    IN  [r EXCEPT !.mgr = [r.mgr EXCEPT !.allocated = FALSE]]

\* lines 22-51 of allocate_standard_buffers: glGenBuffers for STATE, PARAMS,
\* TIMESERIES (only if n_timesteps > 1) and TIME_CONTROL
generate(mg, m, live, nEq, nT) ==
    LET used == BufNames(live)
        sb   == Fresh(used, 1)
        pb   == Fresh(used \cup {sb}, 1)
        tb   == IF nT > 1 THEN Fresh(used \cup {sb, pb}, 1) ELSE mg.timeseries_buffer
        cb   == Fresh(used \cup {sb, pb, tb}, 1)
        made == {sb, pb, cb} \cup (IF nT > 1 THEN {tb} ELSE {})
    IN  [mgr |-> [mg EXCEPT !.n_equations = nEq, !.n_timesteps = nT,
                            !.state_buffer = sb, !.param_buffer = pb,
                            !.timeseries_buffer = tb, !.time_control_buffer = cb],
         live |-> live \cup ({m} \X made),
         created |-> made]

NoCleanup(mg, live) == [mgr |-> mg, live |-> live, deleted |-> {}, bad |-> FALSE]

\* a variant of allocate_standard_buffers() without the release of lines 18-20
allocate_no_release(mg, m, live, nEq, nT, err) ==
    LET g  == generate(mg, m, live, nEq, nT)
        r2 == cleanup_buffers(g.mgr, m, g.live)
    IN  IF err
        THEN [mgr |-> r2.mgr, live |-> r2.live, ret |-> FALSE, created |-> g.created,
              deleted |-> r2.deleted, bad |-> r2.bad]
        ELSE [mgr |-> [g.mgr EXCEPT !.allocated = TRUE], live |-> g.live, ret |-> TRUE,
              created |-> g.created, deleted |-> {}, bad |-> FALSE]

\* a variant of allocate_standard_buffers() without the rollback of line 57
allocate_no_rollback(mg, m, live, nEq, nT, err) ==
    LET r0 == IF mg.allocated THEN cleanup_buffers(mg, m, live) ELSE NoCleanup(mg, live)
        g  == generate(r0.mgr, m, r0.live, nEq, nT)
    IN  IF err
        THEN [mgr |-> g.mgr, live |-> g.live, ret |-> FALSE, created |-> g.created,
              deleted |-> r0.deleted, bad |-> r0.bad]
        ELSE [mgr |-> [g.mgr EXCEPT !.allocated = TRUE], live |-> g.live, ret |-> TRUE,
              created |-> g.created, deleted |-> r0.deleted, bad |-> r0.bad]

\* a variant of allocate_standard_buffers() that keeps the n_equations_ of
\* the session it replaces
allocate_stale_size(mg, m, live, nEq, nT, err) ==
    LET r0 == IF mg.allocated THEN cleanup_buffers(mg, m, live) ELSE NoCleanup(mg, live)
        g0 == generate(r0.mgr, m, r0.live, nEq, nT)
        g  == [g0 EXCEPT !.mgr.n_equations = IF mg.allocated THEN mg.n_equations ELSE nEq]
        r2 == cleanup_buffers(g.mgr, m, g.live)
    IN  IF err
        THEN [mgr |-> r2.mgr, live |-> r2.live, ret |-> FALSE, created |-> g.created,
              deleted |-> r0.deleted \cup r2.deleted, bad |-> r0.bad \/ r2.bad]
        ELSE [mgr |-> [g.mgr EXCEPT !.allocated = TRUE], live |-> g.live, ret |-> TRUE,
              created |-> g.created, deleted |-> r0.deleted, bad |-> r0.bad]

\* GPUBufferManager::allocate_standard_buffers; err = glGetError() reports
\* an error at line 54
allocate_standard_buffers(mg, m, live, nEq, nT, err) ==
    LET r0 == IF mg.allocated THEN cleanup_buffers(mg, m, live) ELSE NoCleanup(mg, live)
        g  == generate(r0.mgr, m, r0.live, nEq, nT)
        r2 == cleanup_buffers(g.mgr, m, g.live)
    IN  IF err
        THEN [mgr |-> r2.mgr, live |-> r2.live, ret |-> FALSE, created |-> g.created,
              deleted |-> r0.deleted \cup r2.deleted, bad |-> r0.bad \/ r2.bad]
        ELSE [mgr |-> [g.mgr EXCEPT !.allocated = TRUE], live |-> g.live, ret |-> TRUE,
              created |-> g.created, deleted |-> r0.deleted, bad |-> r0.bad]

\* GPUBufferManager::read_state_buffer: the length of the result and whether
\* the STATE handle was bound and mapped
read_state_buffer(mg) ==
    IF ~mg.allocated THEN [len |-> 0, accessed |-> FALSE]
    ELSE [len |-> mg.n_equations, accessed |-> TRUE]

\* GPUBufferManager::read_timeseries_buffer
read_timeseries_buffer(mg, nEq, nSteps) ==
    IF ~mg.allocated \/ mg.timeseries_buffer = NoHandle
    THEN [len |-> 0, accessed |-> FALSE]
    ELSE [len |-> nEq * nSteps, accessed |-> TRUE]

(* ----------------------------- ODESystem ------------------------------- *)
\* ODESystem descriptors as solve() sees them: gpu = gpu_info.has_value(),
\* builtin = gpu_info->builtin_rhs_name, code = gpu_info->glsl_rhs_code
SysHostOnly   == [gpu |-> FALSE, builtin |-> "", code |-> ""]
SysExp        == [gpu |-> TRUE, builtin |-> "exponential", code |-> ""]
SysVanDerPol  == [gpu |-> TRUE, builtin |-> "vanderpol", code |-> ""]
SysUnknown    == [gpu |-> TRUE, builtin |-> "nosuch", code |-> ""]
SysCustom     == [gpu |-> TRUE, builtin |-> "", code |-> "snippet"]
SysEmptyInfo  == [gpu |-> TRUE, builtin |-> "", code |-> ""]
Systems == {SysHostOnly, SysExp, SysVanDerPol, SysUnknown, SysCustom, SysEmptyInfo}

\* ODESystem::has_gpu_support
has_gpu_support(sys) == sys.gpu
\* ODESystem::use_builtin_rhs
use_builtin_rhs(sys) == sys.gpu /\ sys.builtin # ""

\* the names BuiltinRHSRegistry::register_builtin_systems registers
RegistryNames == {"exponential", "vanderpol", "lorenz", "harmonic"}
\* the keys of registry_ the model uses: the builtin names and the one other
\* name the systems of Systems refer to
RhsNames == RegistryNames \cup {"nosuch"}
\* no entry under a key of registry_
NoDef == [glsl_code |-> "", uniform_names |-> <<>>, description |-> "none"]
\* the RHSDefinition register_builtin_systems stores under each name
\* (glsl_code abbreviated to the name of the system it evaluates)
BuiltinDef(name) ==
    [glsl_code |-> name,
     uniform_names |-> IF name = "exponential" THEN <<"lambda">>
                       ELSE IF name = "vanderpol" THEN <<"mu">>
                       ELSE IF name = "lorenz" THEN <<"sigma", "rho", "beta">>
                       ELSE <<"omega_sq">>,
     description |-> "builtin"]
\* BuiltinRHSRegistry::BuiltinRHSRegistry
RegistryInit == [n \in RhsNames |-> IF n \in RegistryNames THEN BuiltinDef(n) ELSE NoDef]
\* BuiltinRHSRegistry::has_rhs
has_rhs(name) == name \in RhsNames /\ registry[name] # NoDef

\* a register_rhs() with the behaviour of std::map::insert: an existing entry
\* is kept
register_rhs_insert(reg, name, definition) ==
    IF reg[name] # NoDef THEN reg ELSE [reg EXCEPT ![name] = definition]
\* BuiltinRHSRegistry::register_rhs: registry_[name] = definition
register_rhs(reg, name, definition) == [reg EXCEPT ![name] = definition]

\* a definition registered after construction
AltDef == [glsl_code |-> "alt", uniform_names |-> <<"k">>, description |-> "alt"]

\* a get_rhs() with the behaviour of std::map::operator[]: a missing name
\* gets a default entry and nothing is thrown
get_rhs_subscript(reg, name) ==
    [definition |-> IF reg[name] = NoDef THEN AltDef ELSE reg[name], thrown |-> FALSE,
     reg |-> IF reg[name] = NoDef THEN [reg EXCEPT ![name] = AltDef] ELSE reg]
\* BuiltinRHSRegistry::get_rhs: the definition found, or std::invalid_argument
\* thrown; reg = registry_ afterwards
get_rhs(reg, name) ==
    IF reg[name] = NoDef
    THEN [definition |-> NoDef, thrown |-> TRUE, reg |-> reg]
    ELSE [definition |-> reg[name], thrown |-> FALSE, reg |-> reg]

\* the keys of registry_ in the order std::map iterates them
KeyOrder == <<"exponential", "harmonic", "lorenz", "nosuch", "vanderpol">>
\* BuiltinRHSRegistry::list_available
list_available(reg) == SelectSeq(KeyOrder, LAMBDA n : reg[n] # NoDef)

\* std::to_string(std::hash<std::string>()(code)) on the snippets of Systems
HashString(code) == IF code = "snippet" THEN "7781" ELSE "0"

NoKey == ""
\* the cache key of lines 19-29; NoKey when the function returns at line 28
cache_key(sys) ==
    IF has_gpu_support(sys) /\ use_builtin_rhs(sys) THEN sys.builtin
    ELSE IF has_gpu_support(sys) /\ sys.code # "" THEN "custom_" \o HashString(sys.code)
    ELSE NoKey

CacheKeys == {cache_key(sys) : sys \in Systems} \ {NoKey}

\* std::unordered_map<std::string, GLuint>, NoHandle = no entry
CacheInit == [k \in CacheKeys |-> NoHandle]

(* ----------------------------- ShaderGenerator -------------------------- *)
\* strings are sequences of characters
\* "{{USER_UNIFORMS}}" and "{{RHS_FUNCTION}}"
TokenUniforms ==
    <<"{", "{", "U", "S", "E", "R", "_", "U", "N", "I", "F", "O", "R", "M", "S", "}", "}">>
TokenRhs ==
    <<"{", "{", "R", "H", "S", "_", "F", "U", "N", "C", "T", "I", "O", "N", "}", "}">>

\* the positions at which t occurs in s
Occurrences(s, t) == {i \in 1..(Len(s) - Len(t) + 1) : SubSeq(s, i, i + Len(t) - 1) = t}
\* std::string::find: the first position of t in s (from 1), 0 for npos
find(s, t) ==
    IF Occurrences(s, t) = {} THEN 0
    ELSE CHOOSE i \in Occurrences(s, t) : \A j \in Occurrences(s, t) : i <= j
\* std::string::replace(pos, n, r)
replace(s, pos, n, r) == SubSeq(s, 1, pos - 1) \o r \o SubSeq(s, pos + n, Len(s))

\* ShaderGenerator::generate_uniform_declarations: "    float <name>;\n" per name
RECURSIVE generate_uniform_declarations(_)
generate_uniform_declarations(names) ==
    IF names = <<>> THEN <<>>
    ELSE <<" ", " ", " ", " ", "f", "l", "o", "a", "t", " ">> \o Head(names)
             \o <<";", "\n">> \o generate_uniform_declarations(Tail(names))

\* ShaderGenerator::substitute_rhs
substitute_rhs(template_code, rhs) ==
    LET uniform_decls == generate_uniform_declarations(rhs.uniform_names)
        pos1    == find(template_code, TokenUniforms)
        result1 == IF pos1 # 0 THEN replace(template_code, pos1, 17, uniform_decls)
                   ELSE template_code
        pos2    == find(result1, TokenRhs)
    IN  IF pos2 # 0 THEN replace(result1, pos2, 16, rhs.glsl_code) ELSE result1

(* ------------------------------- the kernel ---------------------------- *)
\* the device kernel on whole numbers: dt = 1 and every uniform (omega_sq, mu,
\* sigma, rho, beta) = 1. st = the STATE buffer as the work-item reads it,
\* indexed from 0; n = n_equations.
\* evaluate_rhs of the coupled builtin systems
evaluate_rhs(name, eq_idx, y_val, st, n) ==
    IF name = "harmonic"
    THEN IF eq_idx % 2 = 0
         THEN (IF eq_idx + 1 < n THEN st[eq_idx + 1] ELSE 0)
         ELSE -(1 * st[eq_idx - 1])
    ELSE IF name = "vanderpol"
    THEN IF eq_idx % 2 = 0
         THEN (IF eq_idx + 1 < n THEN st[eq_idx + 1] ELSE 0)
         ELSE LET x == st[eq_idx - 1] IN 1 * (1 - x * x) * y_val - x
    ELSE IF name = "lorenz"
    THEN LET base_idx  == (eq_idx \div 3) * 3
             local_idx == eq_idx % 3
         IN  IF base_idx + 2 < n
             THEN LET x == st[base_idx]
                      y == st[base_idx + 1]
                      z == st[base_idx + 2]
                  IN  IF local_idx = 0 THEN 1 * (y - x)
                      ELSE IF local_idx = 1 THEN x * (1 - z) - y
                      ELSE x * y - 1 * z
             ELSE 0
    ELSE -(1 * y_val)

\* main() of the kernel up to its store: y_new = y_current + dt * dydt
kernel_y_new(name, eq_idx, st, n) ==
    st[eq_idx] + 1 * evaluate_rhs(name, eq_idx, st[eq_idx], st, n)

(* ---------------------------- GPUEulerBackend -------------------------- *)
\* a variant of compile_compute_shader() without the glDeleteProgram and
\* glDeleteShader of the link-failure path
compile_compute_shader_link_leak(c, pl, comp) ==
    LET p == Fresh(pl, 1)
    IN  IF ~c.initialized
        THEN [program |-> NoHandle, live |-> pl, created |-> {}, deleted |-> {},
              shaderLeft |-> FALSE]
        ELSE IF comp = "compile_error"
        THEN [program |-> NoHandle, live |-> pl, created |-> {"shader"},
              deleted |-> {"shader"}, shaderLeft |-> FALSE]
        ELSE IF comp = "link_error"
        THEN [program |-> NoHandle, live |-> pl \cup {p},
              created |-> {"shader", "program"}, deleted |-> {}, shaderLeft |-> TRUE]
        ELSE [program |-> p, live |-> pl \cup {p}, created |-> {"shader", "program"},
              deleted |-> {"shader"}, shaderLeft |-> FALSE]

\* GPUContextManager::compile_compute_shader: the program name returned
\* (NoHandle on failure), the live programs afterwards, the kinds of GL
\* object the call created and deleted, and whether its shader object is
\* still live on return
compile_compute_shader(c, pl, comp) ==
    LET p == Fresh(pl, 1)
    IN  IF ~c.initialized
        THEN [program |-> NoHandle, live |-> pl, created |-> {}, deleted |-> {},
              shaderLeft |-> FALSE]
        ELSE IF comp = "compile_error"
        THEN [program |-> NoHandle, live |-> pl, created |-> {"shader"},
              deleted |-> {"shader"}, shaderLeft |-> FALSE]
        ELSE IF comp = "link_error"
        THEN [program |-> NoHandle, live |-> (pl \cup {p}) \ {p},
              created |-> {"shader", "program"}, deleted |-> {"program", "shader"},
              shaderLeft |-> FALSE]
        ELSE [program |-> p, live |-> pl \cup {p}, created |-> {"shader", "program"},
              deleted |-> {"shader"}, shaderLeft |-> FALSE]

\* a variant of lines 37-58 that stores the program name under the key
\* before looking at the result of the compile
generate_and_compile_store_first(ch, sys, key, c, pl, tmplOk, comp) ==
    IF ~use_builtin_rhs(sys) \/ ~has_rhs(sys.builtin) \/ ~tmplOk
    THEN [cache |-> ch, live |-> pl, program |-> NoHandle, key |-> key, hit |-> FALSE,
          compiled |-> FALSE, shaderLeft |-> FALSE]
    ELSE LET r == compile_compute_shader(c, pl, comp)
         IN  [cache |-> [ch EXCEPT ![key] = Fresh(pl, 1)],
              live |-> r.live, program |-> r.program, key |-> key, hit |-> FALSE,
              compiled |-> TRUE, shaderLeft |-> r.shaderLeft]

\* lines 37-58 of get_or_compile_shader: generate the source and compile it
\* (tmplOk = load_template finds euler_template.glsl)
generate_and_compile(ch, sys, key, c, pl, tmplOk, comp) ==
    IF ~use_builtin_rhs(sys) \/ ~has_rhs(sys.builtin) \/ ~tmplOk
    THEN [cache |-> ch, live |-> pl, program |-> NoHandle, key |-> key, hit |-> FALSE,
          compiled |-> FALSE, shaderLeft |-> FALSE]
    ELSE LET r == compile_compute_shader(c, pl, comp)
         IN  [cache |-> IF r.program # NoHandle THEN [ch EXCEPT ![key] = r.program] ELSE ch,
              live |-> r.live, program |-> r.program, key |-> key, hit |-> FALSE,
              compiled |-> TRUE, shaderLeft |-> r.shaderLeft]

\* a variant of get_or_compile_shader() without the cache lookup of lines 31-35
get_or_compile_shader_no_lookup(ch, sys, c, pl, tmplOk, comp) ==
    IF cache_key(sys) = NoKey
    THEN [cache |-> ch, live |-> pl, program |-> NoHandle, key |-> NoKey, hit |-> FALSE,
          compiled |-> FALSE, shaderLeft |-> FALSE]
    ELSE generate_and_compile(ch, sys, cache_key(sys), c, pl, tmplOk, comp)

\* GPUEulerBackend::get_or_compile_shader
get_or_compile_shader(ch, sys, c, pl, tmplOk, comp) ==
    LET key == cache_key(sys)
    IN  IF key = NoKey
        THEN [cache |-> ch, live |-> pl, program |-> NoHandle, key |-> NoKey, hit |-> FALSE,
              compiled |-> FALSE, shaderLeft |-> FALSE]
        ELSE IF ch[key] # NoHandle
        THEN [cache |-> ch, live |-> pl, program |-> ch[key], key |-> key, hit |-> TRUE,
              compiled |-> FALSE, shaderLeft |-> FALSE]
        ELSE generate_and_compile(ch, sys, key, c, pl, tmplOk, comp)

\* a variant of line 157 that rounds the quotient down
work_groups_floor(n_equations) == n_equations \div 4

\* line 157: work_groups = (n_equations + 3) / 4
work_groups(n_equations) == (n_equations + 3) \div 4

\* a variant of the loop body without the glMemoryBarrier of line 159
loop_next_no_barrier(pc) ==
    IF pc = "params" THEN "time_control"
    ELSE IF pc = "time_control" THEN "dispatch"
    ELSE IF pc = "dispatch" THEN "read"
    ELSE "params"

\* the statement that follows each statement of the loop body, lines 149-169
loop_next(pc) ==
    IF pc = "params" THEN "time_control"
    ELSE IF pc = "time_control" THEN "dispatch"
    ELSE IF pc = "dispatch" THEN "barrier"
    ELSE IF pc = "barrier" THEN "read"
    ELSE "params"

\* a variant of line 106 that rounds the quotient up
n_steps_ceil(t0, tf, dt) == ((tf - t0 + dt - 1) \div dt) + 1

\* line 106: n_steps = static_cast<int>((tf - t0) / dt) + 1, on tick counts
n_steps_of(t0, tf, dt) == ((tf - t0) \div dt) + 1

\* lines 145-170: the vector is cleared, then one entry per step, read back
\* after that step's dispatch: len = the entry's length (n_equations),
\* read = the floats read_state_buffer() returned for it, dispatches =
\* glDispatchCompute calls issued before the readback
integration_loop(mg, nEq, nSteps) ==
    [k \in 1..nSteps |-> [len |-> nEq, read |-> read_state_buffer(mg).len,
                          dispatches |-> k]]

\* CPUBackend::solve: the initial condition is stored first, then one entry
\* after each stepper_->step(); dispatches = steps applied before the entry
cpu_solve(t0, tf, dt, nEq) ==
    [k \in 1..n_steps_of(t0, tf, dt) |-> [len |-> nEq, read |-> nEq, dispatches |-> k - 1]]

\* a variant of ~GPUEulerBackend that also tears the device context down
backend_destructor_teardown(ch, mg, b, pl, live, c, d) ==
    LET r == cleanup(mg, b, live)
        t == ctx_cleanup(c, d)
    IN  [cache |-> CacheInit, progLive |-> pl \ {ch[k] : k \in CacheKeys},
         mgr |-> MgrInit, bufLive |-> r.live, deleted |-> r.deleted, bad |-> r.bad,
         ctx |-> t.ctx, dev |-> t.dev]

\* GPUEulerBackend::~GPUEulerBackend: glDeleteProgram on every cache entry,
\* then the members' destructors (~GPUBufferManager calls cleanup()); the
\* slot is left as a newly constructed backend would be
backend_destructor(ch, mg, b, pl, live, c, d) ==
    LET r == cleanup(mg, b, live)
    IN  [cache |-> CacheInit, progLive |-> pl \ {ch[k] : k \in CacheKeys},
         mgr |-> MgrInit, bufLive |-> r.live, deleted |-> r.deleted, bad |-> r.bad,
         ctx |-> c, dev |-> d]

\* float user_uniforms[16] of SystemParams
UniformSlots == 16

\* static_cast<float>(double) on the whole numbers below 2^25: exact up to
\* 2^24, above it the nearest multiple of 2, a tie going to the multiple of 4
F32(x) ==
    IF x <= 16777216 THEN x
    ELSE IF x % 2 = 0 THEN x
    ELSE IF (x + 1) % 4 = 0 THEN x + 1
    ELSE x - 1

\* the smaller of two numbers (std::min)
Min(a, b) == IF a < b THEN a ELSE b

\* a variant of setup_uniforms() that copies every entry of gpu_uniforms
setup_uniforms_no_min(sys) ==
    LET vec == sys.gpu_uniforms
    IN  [uniforms |-> [i \in 1..UniformSlots |-> IF i <= Len(vec) THEN vec[i] ELSE 0],
         writes |-> (0..(UniformSlots - 1)) \cup (0..(Len(vec) - 1)),
         consulted |-> FALSE, thrown |-> FALSE]

\* a variant of setup_uniforms() that looks the names up first and lets the
\* parameter map override the entries of gpu_uniforms
setup_uniforms_names_first(sys) ==
    LET vec   == sys.gpu_uniforms
        names == IF has_rhs(sys.builtin) THEN registry[sys.builtin].uniform_names ELSE <<>>
    IN  [uniforms |-> [i \in 1..UniformSlots |->
                          IF i <= Len(names) /\ names[i] \in DOMAIN sys.parameters
                          THEN F32(sys.parameters[names[i]])
                          ELSE IF i <= Len(vec) THEN vec[i] ELSE 0],
         writes |-> 0..(UniformSlots - 1),
         consulted |-> TRUE, thrown |-> FALSE]

\* GPUEulerBackend::setup_uniforms: uniforms = params.user_uniforms after the
\* call (slot i of the code is index i + 1), writes = the slots assigned,
\* consulted = system.parameters was searched, thrown = get_rhs threw
setup_uniforms(sys) ==
    LET vec  == sys.gpu_uniforms
        zero == [i \in 1..UniformSlots |-> 0]
        all  == 0..(UniformSlots - 1)
    IN  IF has_gpu_support(sys) /\ vec # <<>>
        THEN [uniforms |-> [i \in 1..UniformSlots |->
                               IF i <= Min(Len(vec), UniformSlots) THEN vec[i] ELSE 0],
              writes |-> all \cup (0..(Min(Len(vec), UniformSlots) - 1)),
              consulted |-> FALSE, thrown |-> FALSE]
        ELSE IF ~use_builtin_rhs(sys)
        THEN [uniforms |-> zero, writes |-> all, consulted |-> FALSE, thrown |-> FALSE]
        ELSE IF ~has_rhs(sys.builtin)
        THEN [uniforms |-> zero, writes |-> all, consulted |-> FALSE, thrown |-> TRUE]
        ELSE LET names == registry[sys.builtin].uniform_names
             IN  [uniforms |-> [i \in 1..UniformSlots |->
                                   IF i <= Len(names) /\ names[i] \in DOMAIN sys.parameters
                                   THEN F32(sys.parameters[names[i]]) ELSE 0],
                  writes |-> all \cup {i \in 0..(Len(names) - 1) :
                                          i < UniformSlots
                                          /\ names[i + 1] \in DOMAIN sys.parameters},
                  consulted |-> Len(names) > 0, thrown |-> FALSE]

(* ------------------------------ history -------------------------------- *)
HistInit ==
    [everInitOk |-> FALSE,                       \* some initialize() returned true
     opens      |-> 0,                           \* initialize() calls that reached open()
     setups     |-> 0,                           \* completed device setups
     teardowns  |-> 0,                           \* GPUContextManager::cleanup calls
     compiledOk |-> [b \in Backends |-> {}],     \* keys compiled successfully by b
     recompiled |-> FALSE,                       \* a compile for a key of compiledOk
     resolved   |-> [b \in Backends |-> {}],     \* <<key, program>> pairs b resolved
     badDelete  |-> FALSE,                       \* a buffer name deleted while not live
     phase      |-> [m \in Managers |-> "fresh"]]
                \* the last of construction / allocate / cleanup on m and its result

\* what the last call was and what it returned
NoLast ==
    [op |-> "none", m |-> "none", ok |-> FALSE, stage |-> "none",
     preInit |-> FALSE, acquired |-> 0, prePhase |-> "fresh",
     hit |-> FALSE, err |-> FALSE, readLen |-> 0, accessed |-> FALSE]

AfterInit(h, i) ==
    [h EXCEPT !.everInitOk = @ \/ i.ret,
              !.opens = IF i.ret /\ i.acquired = 0 THEN @ ELSE @ + 1,
              !.setups = IF i.ret /\ i.acquired > 0 THEN @ + 1 ELSE @]

AfterShader(h, b, g) ==
    [h EXCEPT !.recompiled = @ \/ (g.compiled /\ g.key \in h.compiledOk[b]),
              !.compiledOk[b] = IF g.compiled /\ g.program # NoHandle
                                THEN @ \cup {g.key} ELSE @,
              !.resolved[b] = IF g.program # NoHandle
                              THEN @ \cup {<<g.key, g.program>>} ELSE @]

AfterAlloc(h, m, a) ==
    [h EXCEPT !.badDelete = @ \/ a.bad,
              !.phase[m] = IF a.ret THEN "allocated" ELSE "failed"]

\* the driver has passed no arguments yet
NoReq == [sys |-> [gpu |-> FALSE, builtin |-> "", code |-> "none"],
          tf |-> 0, dt |-> 0, nEq |-> 0]
\* no direct call of a host-side component has been made
NoRes == [op |-> "none"]

(* ------------------------------- actions ------------------------------- *)
InitComponents ==
    /\ ctx = CtxInit
    /\ dev = DevInit
    /\ exited = FALSE
    /\ alive = [b \in Backends |-> FALSE]
    /\ cache = [b \in Backends |-> CacheInit]
    /\ progLive = {}
    /\ mgr = [m \in Managers |-> MgrInit]
    /\ bufLive = {}
    /\ solution = <<>>
    /\ hist = HistInit
    /\ last = NoLast
    /\ registry = RegistryInit
    /\ shaderLive = {}
    /\ res = NoRes

\* the state before the first call
Init ==
    /\ InitComponents
    /\ req = NoReq

\* the outcomes initialize() can have in the current state
InitChoices == IF ctx.initialized THEN {InitOk} ELSE InitOutcomes

\* a direct GPUContextManager::instance().initialize()
InitializeCall(failAt) ==
    /\ ~exited
    /\ ctx.initialized \/ hist.opens < MaxInitAttempts
    /\ LET i == initialize(ctx, dev, failAt)
       IN  /\ ctx' = i.ctx
           /\ dev' = i.dev
           /\ hist' = AfterInit(hist, i)
           /\ last' = [NoLast EXCEPT !.op = "initialize", !.ok = i.ret,
                                     !.preInit = hist.everInitOk,
                                     !.acquired = i.acquired]
    /\ UNCHANGED <<exited, alive, cache, progLive, mgr, bufLive, solution>>

Initialize(failAt) ==
    /\ InitializeCall(failAt)
    /\ UNCHANGED aux

\* the same call by a driver that notes which resources the call acquired,
\* in order; a call on an initialized context acquires nothing
InitializeNoted(failAt) ==
    /\ InitializeCall(failAt)
    /\ res' = IF ctx.initialized THEN res
              ELSE [op |-> "initialize", ok |-> initialize(ctx, dev, failAt).ret,
                    order |-> SubSeq(AcquireOrder, 1,
                                     initialize(ctx, dev, failAt).acquired)]
    /\ UNCHANGED <<req, registry, shaderLive>>

\* GPUEulerBackend::GPUEulerBackend
Construct(b) ==
    /\ ~exited
    /\ ~alive[b]
    /\ alive' = [alive EXCEPT ![b] = TRUE]
    /\ last' = [NoLast EXCEPT !.op = "construct", !.m = b, !.ok = TRUE]
    /\ UNCHANGED <<ctx, dev, exited, cache, progLive, mgr, bufLive, solution, hist>>
    /\ UNCHANGED aux

\* GPUEulerBackend::~GPUEulerBackend
Destroy(b) ==
    /\ ~exited
    /\ alive[b]
    /\ LET r == backend_destructor(cache[b], mgr[b], b, progLive, bufLive, ctx, dev)
       IN  /\ cache' = [cache EXCEPT ![b] = r.cache]
           /\ progLive' = r.progLive
           /\ mgr' = [mgr EXCEPT ![b] = r.mgr]
           /\ bufLive' = r.bufLive
           /\ ctx' = r.ctx
           /\ dev' = r.dev
           /\ hist' = [hist EXCEPT !.badDelete = @ \/ r.bad,
                                   !.teardowns = IF r.ctx = ctx THEN @ ELSE @ + 1,
                                   !.compiledOk[b] = {}, !.resolved[b] = {},
                                   !.phase[b] = "fresh"]
           /\ last' = [NoLast EXCEPT !.op = "destroy", !.m = b, !.ok = TRUE]
    /\ alive' = [alive EXCEPT ![b] = FALSE]
    /\ UNCHANGED <<exited, solution>>
    /\ UNCHANGED aux

\* how kernel resolution can end when it has to generate and compile: the
\* template is missing, or compile_compute_shader ends in one of its ways
KernelOutcomes == {"ok", "no_template", "compile_error", "link_error"}

\* the caller constructs a new, empty output vector
NewVector ==
    /\ ~exited
    /\ solution # <<>>
    /\ solution' = <<>>
    /\ last' = [NoLast EXCEPT !.op = "new_vector", !.ok = TRUE]
    /\ UNCHANGED <<ctx, dev, exited, alive, cache, progLive, mgr, bufLive, hist>>
    /\ UNCHANGED aux

\* GPUEulerBackend::solve(system, 0, tf, dt, y0, solution) on the caller's
\* vector, with tf in TF, dt in DT and |y0| in EQ. The answers of the
\* environment are drawn where the code asks for them: device setup from F,
\* template and compiler from K, glGetError from E; tf, dt and y0 are drawn
\* where the code first uses them for more than the log line of lines 108-109.
SolveEnv(b, sys, F, K, E, TF, DT, EQ) ==
    /\ ~exited
    /\ alive[b]
    /\ ctx.initialized \/ hist.opens < MaxInitAttempts
    /\ \E f \in (InitChoices \cap F) :
        LET i    == initialize(ctx, dev, f)
            l0   == [NoLast EXCEPT !.op = "solve", !.m = b]
            h0   == AfterInit(hist, i)
            asks == get_or_compile_shader(cache[b], sys, i.ctx, progLive, TRUE, "ok").compiled
        IN  /\ ctx' = i.ctx
            /\ dev' = i.dev
            /\ IF ~i.ret
               THEN /\ hist' = h0
                    /\ last' = [l0 EXCEPT !.stage = "context"]
                    /\ UNCHANGED <<cache, progLive, shaderLive, mgr, bufLive, solution>>
               ELSE IF ~has_gpu_support(sys)
               THEN /\ hist' = h0
                    /\ last' = [l0 EXCEPT !.stage = "unsupported"]
                    /\ UNCHANGED <<cache, progLive, shaderLive, mgr, bufLive, solution>>
               ELSE \E k \in (IF asks THEN K ELSE {"ok"}) :
                    LET g == get_or_compile_shader(cache[b], sys, i.ctx, progLive,
                                 k # "no_template", IF k = "no_template" THEN "ok" ELSE k)
                    IN  /\ cache' = [cache EXCEPT ![b] = g.cache]
                        /\ progLive' = g.live
                        /\ shaderLive' = IF g.shaderLeft
                                         THEN shaderLive \cup {Fresh(shaderLive, 1)}
                                         ELSE shaderLive
                        /\ IF g.program = NoHandle
                           THEN /\ hist' = AfterShader(h0, b, g)
                                /\ last' = [l0 EXCEPT !.stage = "kernel"]
                                /\ UNCHANGED <<mgr, bufLive, solution>>
                           ELSE \E tf \in TF, dt \in DT, nEq \in EQ, err \in E :
                                LET nSteps == n_steps_of(0, tf, dt)
                                    a == allocate_standard_buffers(mgr[b], b, bufLive, nEq,
                                                                   nSteps, err)
                                IN  /\ mgr' = [mgr EXCEPT ![b] = a.mgr]
                                    /\ bufLive' = a.live
                                    /\ hist' = AfterAlloc(AfterShader(h0, b, g), b, a)
                                    /\ IF ~a.ret
                                       THEN /\ last' = [l0 EXCEPT !.stage = "buffers",
                                                           !.hit = g.hit, !.err = err]
                                            /\ UNCHANGED solution
                                       ELSE /\ solution' = integration_loop(a.mgr, nEq, nSteps)
                                            /\ last' = [l0 EXCEPT !.stage = "done",
                                                           !.ok = TRUE, !.hit = g.hit]
    /\ UNCHANGED <<exited, alive, registry, res>>

\* a solve() with any system and any inputs within the bounds, in any
\* environment
Solve(b, sys) ==
    /\ SolveEnv(b, sys, InitOutcomes, KernelOutcomes, BOOLEAN,
                0..MaxT, 1..MaxDt, 1..MaxEq)
    /\ UNCHANGED req

\* CPUBackend::solve(system, 0, tf, dt, y0, solution) with |y0| = nEq
CpuSolve(tf, dt, nEq) ==
    /\ ~exited
    /\ solution' = cpu_solve(0, tf, dt, nEq)
    /\ last' = [NoLast EXCEPT !.op = "cpu_solve", !.ok = TRUE, !.stage = "done"]
    /\ UNCHANGED <<ctx, dev, exited, alive, cache, progLive, mgr, bufLive, hist>>
    /\ UNCHANGED <<registry, shaderLive, res>>

\* the comparison program (tests/test_gpu_vs_cpu.cpp): one problem, given
\* to the device backend in any environment ...
SolveReq(b) ==
    /\ SolveEnv(b, req.sys, InitOutcomes, KernelOutcomes, BOOLEAN,
                {req.tf}, {req.dt}, {req.nEq})
    /\ UNCHANGED req

\* ... and to the host backend
CpuSolveReq ==
    /\ CpuSolve(req.tf, req.dt, req.nEq)
    /\ UNCHANGED req

\* a program that keeps one backend for problem after problem, on a device
\* whose setup, template and compiler work; it notes the arguments it passes
SolveNoted(b, sys, tf, dt, nEq) ==
    /\ SolveEnv(b, sys, {InitOk}, {"ok"}, BOOLEAN, {tf}, {dt}, {nEq})
    /\ req' = [sys |-> sys, tf |-> tf, dt |-> dt, nEq |-> nEq]

\* a direct GPUContextManager::instance().compile_compute_shader(source);
\* comp = how the compiler and the linker answer
CompileShader(comp) ==
    /\ ~exited
    /\ comp = "ok" => Cardinality(progLive) < MaxPrograms
    /\ LET r == compile_compute_shader(ctx, progLive, comp)
       IN  /\ progLive' = r.live
           /\ shaderLive' = IF r.shaderLeft THEN shaderLive \cup {Fresh(shaderLive, 1)}
                            ELSE shaderLive
           /\ res' = [op |-> "compile", comp |-> comp, init |-> ctx.initialized,
                      program |-> r.program, created |-> r.created,
                      deleted |-> r.deleted, before |-> progLive]
    /\ UNCHANGED <<ctx, dev, exited, alive, cache, mgr, bufLive, solution, hist, last,
                   req, registry>>

\* glDeleteProgram(p) by the owner of a program compile_compute_shader returned
DeleteProgram(p) ==
    /\ ~exited
    /\ p \in progLive
    /\ progLive' = progLive \ {p}
    /\ res' = [op |-> "delete_program"]
    /\ UNCHANGED <<ctx, dev, exited, alive, cache, mgr, bufLive, solution, hist, last,
                   req, registry, shaderLive>>

\* BuiltinRHSRegistry::instance().register_rhs(name, definition)
RegisterRhs(name, definition) ==
    /\ registry' = register_rhs(registry, name, definition)
    /\ res' = [op |-> "register_rhs", name |-> name, definition |-> definition,
               before |-> registry]
    /\ UNCHANGED <<ctx, dev, exited, alive, cache, progLive, mgr, bufLive, solution,
                   hist, last, req, shaderLive>>

\* BuiltinRHSRegistry::instance().get_rhs(name)
GetRhs(name) ==
    /\ LET r == get_rhs(registry, name)
       IN  /\ registry' = r.reg
           /\ res' = [op |-> "get_rhs", name |-> name, definition |-> r.definition,
                      thrown |-> r.thrown, had |-> has_rhs(name), before |-> registry]
    /\ UNCHANGED <<ctx, dev, exited, alive, cache, progLive, mgr, bufLive, solution,
                   hist, last, req, shaderLive>>

\* BuiltinRHSRegistry::instance().has_rhs(name)
HasRhs(name) ==
    /\ res' = [op |-> "has_rhs", name |-> name, found |-> has_rhs(name),
               before |-> registry]
    /\ UNCHANGED <<ctx, dev, exited, alive, cache, progLive, mgr, bufLive, solution,
                   hist, last, req, registry, shaderLive>>

\* BuiltinRHSRegistry::instance().list_available()
ListAvailable ==
    /\ res' = [op |-> "list_available", list |-> list_available(registry),
               before |-> registry]
    /\ UNCHANGED <<ctx, dev, exited, alive, cache, progLive, mgr, bufLive, solution,
                   hist, last, req, registry, shaderLive>>

\* a solve() on a working device; the driver notes whether the registry held
\* the builtin name of the system and what the cache held when it called
SolveLookup(b, sys) ==
    /\ SolveEnv(b, sys, {InitOk}, {"ok"}, {FALSE}, {1}, {1}, {1})
    /\ req' = [sys |-> sys, tf |-> 1, dt |-> 1, nEq |-> 1,
               registered |-> has_rhs(sys.builtin), before |-> cache[b]]

\* ShaderGenerator::substitute_rhs(template_code, rhs) on the template and
\* the definition the driver holds
SubstituteRhs ==
    /\ res' = [op |-> "substitute_rhs",
               result |-> substitute_rhs(req.template_code, req.rhs)]
    /\ UNCHANGED <<ctx, dev, exited, alive, cache, progLive, mgr, bufLive, solution,
                   hist, last, req, registry, shaderLive>>

\* the integration loop of solve(), lines 145-170, one GL or buffer-manager
\* call at a time; res holds the loop's position (pc, step) and the calls made
\* so far. solution.clear() and the loop entry:
LoopStart ==
    /\ res.op = "none"
    /\ res' = [op |-> "loop", step |-> 0, events |-> <<>>,
               pc |-> IF 0 < req.n_steps THEN "params" ELSE "done"]
    /\ UNCHANGED <<ctx, dev, exited, alive, cache, progLive, mgr, bufLive, solution,
                   hist, last, req, registry, shaderLive>>

\* lines 149, 153: params.t_current = t0 + step * dt; update_system_params
LoopWriteParams ==
    /\ res.op = "loop" /\ res.pc = "params"
    /\ res' = [res EXCEPT !.pc = loop_next("params"),
                          !.events = Append(@, [e |-> "params", step |-> res.step,
                                                t_current |-> res.step * req.dt])]
    /\ UNCHANGED <<ctx, dev, exited, alive, cache, progLive, mgr, bufLive, solution,
                   hist, last, req, registry, shaderLive>>

\* lines 150, 154: time_ctrl.current_step = step; update_time_control
LoopWriteTimeControl ==
    /\ res.op = "loop" /\ res.pc = "time_control"
    /\ res' = [res EXCEPT !.pc = loop_next("time_control"),
                          !.events = Append(@, [e |-> "time_control",
                                                current_step |-> res.step])]
    /\ UNCHANGED <<ctx, dev, exited, alive, cache, progLive, mgr, bufLive, solution,
                   hist, last, req, registry, shaderLive>>

\* lines 157-158: glDispatchCompute(work_groups, 1, 1)
LoopDispatch ==
    /\ res.op = "loop" /\ res.pc = "dispatch"
    /\ res' = [res EXCEPT !.pc = loop_next("dispatch"),
                          !.events = Append(@, [e |-> "dispatch",
                                                work_groups |-> work_groups(req.nEq)])]
    /\ UNCHANGED <<ctx, dev, exited, alive, cache, progLive, mgr, bufLive, solution,
                   hist, last, req, registry, shaderLive>>

\* line 159: glMemoryBarrier(GL_SHADER_STORAGE_BARRIER_BIT)
LoopBarrier ==
    /\ res.op = "loop" /\ res.pc = "barrier"
    /\ res' = [res EXCEPT !.pc = loop_next("barrier"),
                          !.events = Append(@, [e |-> "barrier"])]
    /\ UNCHANGED <<ctx, dev, exited, alive, cache, progLive, mgr, bufLive, solution,
                   hist, last, req, registry, shaderLive>>

\* lines 162-169 and the loop increment: read_state_buffer(), push_back as
\* the next entry of the trajectory, ++step
LoopRead ==
    /\ res.op = "loop" /\ res.pc = "read"
    /\ res' = [res EXCEPT !.step = @ + 1,
                          !.pc = IF res.step + 1 < req.n_steps THEN loop_next("read")
                                 ELSE "done",
                          !.events = Append(@, [e |-> "read",
                               index |-> Cardinality({i \in DOMAIN res.events :
                                                        res.events[i].e = "read"})])]
    /\ UNCHANGED <<ctx, dev, exited, alive, cache, progLive, mgr, bufLive, solution,
                   hist, last, req, registry, shaderLive>>

\* a solve() on a working device whose template or compiler may fail; the
\* driver notes the system and what the cache held when it called
SolveFaulty(b, sys) ==
    /\ SolveEnv(b, sys, {InitOk}, KernelOutcomes, {FALSE}, {1}, {1}, {1})
    /\ req' = [sys |-> sys, tf |-> 1, dt |-> 1, nEq |-> 1, before |-> cache[b]]

\* one glDispatchCompute: the work-items of the dispatch run main() without
\* any ordering among them. res holds the STATE buffer, each work-item's
\* position in main() and the y_new it has computed. The dispatch begins:
KernelDispatch ==
    /\ res.op = "none"
    /\ res' = [op |-> "kernel", state |-> req.state,
               pc |-> [i \in 0..(4 * work_groups(req.n) - 1) |-> "load"],
               y_new |-> [i \in 0..(4 * work_groups(req.n) - 1) |-> 0]]
    /\ UNCHANGED <<ctx, dev, exited, alive, cache, progLive, mgr, bufLive, solution,
                   hist, last, req, registry, shaderLive>>

\* work-item i: the bounds test, the load of its own entry and evaluate_rhs,
\* which reads the entries of other equations from the STATE buffer
KernelLoad(i) ==
    /\ res.op = "kernel" /\ res.pc[i] = "load"
    /\ res' = IF i >= req.n
              THEN [res EXCEPT !.pc[i] = "done"]
              ELSE [res EXCEPT !.pc[i] = "store",
                               !.y_new[i] = kernel_y_new(req.name, i, res.state, req.n)]
    /\ UNCHANGED <<ctx, dev, exited, alive, cache, progLive, mgr, bufLive, solution,
                   hist, last, req, registry, shaderLive>>

\* work-item i: current_state[eq_idx] = y_new
KernelStore(i) ==
    /\ res.op = "kernel" /\ res.pc[i] = "store"
    /\ res' = [res EXCEPT !.pc[i] = "done", !.state[i] = res.y_new[i]]
    /\ UNCHANGED <<ctx, dev, exited, alive, cache, progLive, mgr, bufLive, solution,
                   hist, last, req, registry, shaderLive>>

\* setup_uniforms(system, params) for the system the driver holds
SetupUniforms ==
    /\ res' = [op |-> "setup_uniforms"] @@ setup_uniforms(req.sys)
    /\ UNCHANGED <<ctx, dev, exited, alive, cache, progLive, mgr, bufLive, solution,
                   hist, last, req, registry, shaderLive>>

\* allocate_standard_buffers on the directly used manager; the caller has a
\* current context
AllocateCall(nEq, nT, err) ==
    /\ ~exited
    /\ ctx.initialized
    /\ LET m == StandaloneMgr
           a == allocate_standard_buffers(mgr[m], m, bufLive, nEq, nT, err)
       IN  /\ mgr' = [mgr EXCEPT ![m] = a.mgr]
           /\ bufLive' = a.live
           /\ hist' = AfterAlloc(hist, m, a)
           /\ last' = [NoLast EXCEPT !.op = "allocate", !.m = m, !.ok = a.ret,
                                     !.err = err, !.prePhase = hist.phase[m]]
    /\ UNCHANGED <<ctx, dev, exited, alive, cache, progLive, solution>>

Allocate(nEq, nT, err) ==
    /\ AllocateCall(nEq, nT, err)
    /\ UNCHANGED aux

\* the same call by a driver that notes its arguments and the session the
\* manager held before
AllocateNoted(nEq, nT, err) ==
    /\ AllocateCall(nEq, nT, err)
    /\ res' = [op |-> "allocate", n_equations |-> nEq, n_timesteps |-> nT,
               before |-> mgr[StandaloneMgr]]
    /\ UNCHANGED <<req, registry, shaderLive>>

\* cleanup() on the directly used manager
Cleanup ==
    /\ ~exited
    /\ LET m == StandaloneMgr
           r == cleanup(mgr[m], m, bufLive)
       IN  /\ mgr' = [mgr EXCEPT ![m] = r.mgr]
           /\ bufLive' = r.live
           /\ hist' = [hist EXCEPT !.badDelete = @ \/ r.bad, !.phase[m] = "cleaned"]
           /\ last' = [NoLast EXCEPT !.op = "cleanup", !.m = m, !.ok = TRUE,
                                     !.prePhase = hist.phase[m]]
    /\ UNCHANGED <<ctx, dev, exited, alive, cache, progLive, solution>>
    /\ UNCHANGED aux

\* read_state_buffer() on the directly used manager
ReadState ==
    /\ ~exited
    /\ LET m == StandaloneMgr
           r == read_state_buffer(mgr[m])
       IN  last' = [NoLast EXCEPT !.op = "read_state", !.m = m, !.ok = TRUE,
                                  !.readLen = r.len, !.accessed = r.accessed,
                                  !.prePhase = hist.phase[m]]
    /\ UNCHANGED <<ctx, dev, exited, alive, cache, progLive, mgr, bufLive, solution, hist>>
    /\ UNCHANGED aux

\* read_timeseries_buffer(nEq, nSteps) on the directly used manager
ReadTimeseries(nEq, nSteps) ==
    /\ ~exited
    /\ LET m == StandaloneMgr
           r == read_timeseries_buffer(mgr[m], nEq, nSteps)
       IN  last' = [NoLast EXCEPT !.op = "read_timeseries", !.m = m, !.ok = TRUE,
                                  !.readLen = r.len, !.accessed = r.accessed,
                                  !.prePhase = hist.phase[m]]
    /\ UNCHANGED <<ctx, dev, exited, alive, cache, progLive, mgr, bufLive, solution, hist>>
    /\ UNCHANGED aux

\* process exit: the function-local static of instance() is destroyed,
\* ~GPUContextManager calls cleanup()
ProcessExitCall ==
    /\ ~exited
    /\ LET t == ctx_cleanup(ctx, dev)
       IN  /\ ctx' = t.ctx
           /\ dev' = t.dev
    /\ exited' = TRUE
    /\ hist' = [hist EXCEPT !.teardowns = @ + 1]
    /\ last' = [NoLast EXCEPT !.op = "exit", !.ok = TRUE]
    /\ UNCHANGED <<alive, cache, progLive, mgr, bufLive, solution>>

ProcessExit ==
    /\ ProcessExitCall
    /\ UNCHANGED aux

\* process exit observed: which resources cleanup() released, in order, and
\* what the initialize() before it had acquired
ProcessExitNoted ==
    /\ ProcessExitCall
    /\ res' = [op |-> "exit", released |-> ctx_cleanup(ctx, dev).released,
               wasInitialized |-> ctx.initialized,
               order |-> IF res.op = "initialize" THEN res.order ELSE <<>>,
               devBefore |-> dev]
    /\ UNCHANGED <<req, registry, shaderLive>>

StepCounts == 1..(MaxT + 1)

NextBackend ==
    \/ \E f \in InitChoices : Initialize(f)
    \/ \E b \in Backends : Construct(b)
    \/ \E b \in Backends : Destroy(b)
    \/ NewVector
    \/ \E b \in Backends, sys \in Systems : Solve(b, sys)
    \/ ProcessExit

NextMgr ==
    \/ \E f \in InitChoices : Initialize(f)
    \/ \E nEq \in 1..MaxEq, nT \in StepCounts, err \in BOOLEAN : Allocate(nEq, nT, err)
    \/ Cleanup
    \/ ReadState
    \/ \E nEq \in 1..MaxEq, nSteps \in StepCounts : ReadTimeseries(nEq, nSteps)
    \/ ProcessExit

\* the problems of the comparison program
StepReqs == [sys : Systems, tf : 0..MaxTf, dt : 1..MaxStep, nEq : 1..MaxEq]

InitSteps ==
    /\ InitComponents
    /\ req \in StepReqs

NextSteps ==
    \/ \E b \in Backends : Construct(b)
    \/ \E b \in Backends : SolveReq(b)
    \/ CpuSolveReq

\* the systems of the sessions: two builtin ones and one with a snippet
SessionSystems == {SysExp, SysVanDerPol, SysCustom}

\* the sessions use a step of one tick
NextSession ==
    \/ \E b \in Backends : Construct(b)
    \/ \E b \in Backends, sys \in SessionSystems, tf \in 0..MaxT, nEq \in 1..MaxDim :
          SolveNoted(b, sys, tf, 1, nEq)

\* the names and values of system.parameters: 16777217 is the smallest
\* whole number that float cannot hold
ParamNames == {"lambda", "sigma", "beta"}
ParamValues == {2, 16777217}
ParamMaps == UNION {[D -> ParamValues] : D \in SUBSET ParamNames}
\* gpu_uniforms of length n: entry i holds 100 + i
UniformVec(n) == [i \in 1..n |-> 100 + i]
\* the systems setup_uniforms is given: without gpu_info, or with gpu_info
\* and a builtin name (exponential: one uniform, lorenz: three, nosuch:
\* not registered) or none
UniformSystems ==
    {[gpu |-> FALSE, builtin |-> "", code |-> "", gpu_uniforms |-> <<>>, parameters |-> pm] :
        pm \in ParamMaps}
    \cup {[gpu |-> TRUE, builtin |-> bn, code |-> "", gpu_uniforms |-> UniformVec(n),
           parameters |-> pm] :
        bn \in {"exponential", "lorenz", "nosuch", ""}, n \in 0..MaxUniforms,
        pm \in ParamMaps}

InitUniforms ==
    /\ InitComponents
    /\ req \in [sys : UniformSystems, tf : {0}, dt : {0}, nEq : {0}]

NextUniforms == SetupUniforms

NextCompile ==
    \/ \E f \in InitChoices : Initialize(f)
    \/ \E comp \in KernelOutcomes \ {"no_template"} : CompileShader(comp)
    \/ \E p \in progLive : DeleteProgram(p)
    \/ ProcessExit

\* the names a program registers definitions under, and the definitions
RegisterNames == {"exponential", "lorenz", "nosuch"}
RegisterDefs == {AltDef, BuiltinDef("exponential")}
LookupSystems == {SysExp, SysUnknown}

NextRegistry ==
    \/ \E name \in RegisterNames, definition \in RegisterDefs : RegisterRhs(name, definition)
    \/ \E name \in RhsNames : GetRhs(name)
    \/ \E name \in RhsNames : HasRhs(name)
    \/ ListAvailable
    \/ \E b \in Backends : Construct(b)
    \/ \E b \in Backends, sys \in LookupSystems : SolveLookup(b, sys)

\* templates that contain each token once: the uniform token first or
\* second, the tokens adjacent, and the uniform token inside text that spells
\* the RHS token around it
Templates ==
    { <<"A">> \o TokenUniforms \o <<"B">> \o TokenRhs \o <<"C">>,
      <<"A">> \o TokenRhs \o <<"B">> \o TokenUniforms \o <<"C">>,
      TokenUniforms \o TokenRhs,
      TokenRhs \o TokenUniforms,
      SubSeq(TokenRhs, 1, 6) \o TokenUniforms \o SubSeq(TokenRhs, 7, 16)
          \o <<"B">> \o TokenRhs }
\* uniform-name lists: none, one, two names, and a name that spells a token
UniformNameLists ==
    { <<>>, <<(<<"m", "u">>)>>, <<(<<"s">>), (<<"r">>)>>, <<TokenRhs>> }
\* snippets: empty, plain, and spelling either token
Snippets == { <<>>, <<"y", ";">>, <<"a">> \o TokenUniforms, TokenRhs \o <<"b">> }
TemplateReqs ==
    { [template_code |-> t,
       rhs |-> [glsl_code |-> c, uniform_names |-> n, description |-> "test"]] :
      t \in Templates, n \in UniformNameLists, c \in Snippets }
InitTemplate == InitComponents /\ req \in TemplateReqs
NextTemplate == SubstituteRhs

(* ------------- the two backends on the exponential decay problem -------- *)
\* Values of y are whole multiples of 1e-9 (1.0 is 10^9) and times are whole
\* hundredths, so dt = 0.01 is 1 and tf = 1.0 is 100. A product with a
\* fraction is rounded to the nearest multiple of 1e-9 where the code rounds
\* to the nearest double (host) or float (device).
Magnitude(x) == IF x < 0 THEN -x ELSE x

\* x * num / den, rounded to nearest. x is split as q * den + r so that no
\* intermediate value needs more than 32 bits.
Times(x, num, den) ==
    LET m == Magnitude(x)
        q == m \div den
        r == m % den
        p == q * num + ((r * num + den \div 2) \div den)
    IN IF x < 0 THEN -p ELSE p

\* system.rhs of create_exponential_decay: {-2.0 * y[0]}
exponential_rhs(y) == -2 * y

\* ExplicitEulerStepper::step: y[i] += dt * dydt[i]
euler_step(y, dt) == y + Times(exponential_rhs(y), dt, 100)

\* rk45_step without the last stage in the result
rk45_step_no_k6(y, h) ==
    LET k1 == Times(exponential_rhs(y), h, 100)
        k2 == Times(exponential_rhs(y + Times(k1, 1, 5)), h, 100)
        k3 == Times(exponential_rhs(y + Times(k1, 3, 40) + Times(k2, 9, 40)), h, 100)
        k4 == Times(exponential_rhs(y + Times(k1, 44, 45) - Times(k2, 56, 15)
                                      + Times(k3, 32, 9)), h, 100)
        k5 == Times(exponential_rhs(y + Times(k1, 19372, 6561) - Times(k2, 25360, 2187)
                                      + Times(k3, 64448, 6561) - Times(k4, 212, 729)),
                    h, 100)
    IN y + Times(k1, 35, 384) + Times(k3, 500, 1113) + Times(k4, 125, 192)
         - Times(k5, 2187, 6784)

\* RK45Stepper::rk45_step with the Dormand-Prince coefficients of lines
\* 12-21: k_i = h * rhs(y_temp_i), y_new = y + b1 k1 + b3 k3 + b4 k4 + b5 k5
\* + b6 k6. The right-hand side does not depend on t.
rk45_step(y, h) ==
    LET k1 == Times(exponential_rhs(y), h, 100)
        k2 == Times(exponential_rhs(y + Times(k1, 1, 5)), h, 100)
        k3 == Times(exponential_rhs(y + Times(k1, 3, 40) + Times(k2, 9, 40)), h, 100)
        k4 == Times(exponential_rhs(y + Times(k1, 44, 45) - Times(k2, 56, 15)
                                      + Times(k3, 32, 9)), h, 100)
        k5 == Times(exponential_rhs(y + Times(k1, 19372, 6561) - Times(k2, 25360, 2187)
                                      + Times(k3, 64448, 6561) - Times(k4, 212, 729)),
                    h, 100)
        k6 == Times(exponential_rhs(y + Times(k1, 9017, 3168) - Times(k2, 355, 33)
                                      + Times(k3, 46732, 5247) + Times(k4, 49, 176)
                                      - Times(k5, 5103, 18656)), h, 100)
    IN y + Times(k1, 35, 384) + Times(k3, 500, 1113) + Times(k4, 125, 192)
         - Times(k5, 2187, 6784) + Times(k6, 11, 84)

\* create_stepper(method_name)->step(system, t, dt, y)
stepper_step(method_name, y, dt) ==
    IF method_name = "euler" THEN euler_step(y, dt) ELSE rk45_step(y, dt)

\* main() of the kernel with the exponential evaluate_rhs, -lambda * y_val:
\* y_new = y_current + dt * dydt
exponential_y_new(y_current, lambda, dt) ==
    y_current + Times(-lambda * y_current, dt, 100)

\* std::exp(-2.0 * tf) for tf = 1.0, in multiples of 1e-9
ExpMinus2 == 135335283

\* the comparison program begins: CPUBackend::solve stores the initial
\* condition and enters its loop at i = 1
CompareStart ==
    /\ res.op = "none"
    /\ res' = [op |-> "compare", i |-> 1, step |-> 0,
               y |-> req.y0, cpu_solution |-> <<req.y0>>,
               state |-> req.y0, gpu_solution |-> <<>>,
               pc |-> IF 1 < n_steps_of(0, req.tf, req.dt) THEN "host" ELSE "device"]
    /\ UNCHANGED <<ctx, dev, exited, alive, cache, progLive, mgr, bufLive, solution,
                   hist, last, req, registry, shaderLive>>

\* one pass of the loop of CPUBackend::solve: step, then push_back
HostStep ==
    /\ res.op = "compare" /\ res.pc = "host"
    /\ LET y == stepper_step(req.stepper, res.y, req.dt)
       IN res' = [res EXCEPT !.y = y,
                             !.cpu_solution = Append(@, y),
                             !.i = @ + 1,
                             !.pc = IF res.i + 1 < n_steps_of(0, req.tf, req.dt)
                                    THEN "host" ELSE "device"]
    /\ UNCHANGED <<ctx, dev, exited, alive, cache, progLive, mgr, bufLive, solution,
                   hist, last, req, registry, shaderLive>>

\* one pass of the loop of GPUEulerBackend::solve: the dispatch updates
\* STATE, the readback is pushed onto the solution
DeviceStep ==
    /\ res.op = "compare" /\ res.pc = "device"
    /\ LET y_new == exponential_y_new(res.state, req.lambda, req.dt)
       IN res' = [res EXCEPT !.state = y_new,
                             !.gpu_solution = Append(@, y_new),
                             !.step = @ + 1,
                             !.pc = IF res.step + 1 < n_steps_of(0, req.tf, req.dt)
                                    THEN "device" ELSE "analysis"]
    /\ UNCHANGED <<ctx, dev, exited, alive, cache, progLive, mgr, bufLive, solution,
                   hist, last, req, registry, shaderLive>>

\* the accuracy analysis of the comparison program
AccuracyAnalysis ==
    /\ res.op = "compare" /\ res.pc = "analysis"
    /\ LET cpu_back == res.cpu_solution[Len(res.cpu_solution)]
           gpu_back == res.gpu_solution[Len(res.gpu_solution)]
       IN res' = [op |-> "analysis",
                  cpu_updates |-> res.i - 1, gpu_updates |-> res.step,
                  cpu_error |-> Magnitude(cpu_back - ExpMinus2),
                  gpu_error |-> Magnitude(gpu_back - ExpMinus2),
                  cpu_gpu_diff |-> Magnitude(cpu_back - gpu_back)]
    /\ UNCHANGED <<ctx, dev, exited, alive, cache, progLive, mgr, bufLive, solution,
                   hist, last, req, registry, shaderLive>>

\* a program that allocates sessions of different lengths on one manager
NextBuffers ==
    \/ \E f \in InitChoices : Initialize(f)
    \/ \E nEq \in 1..MaxEq, nT \in StepCounts, err \in BOOLEAN : AllocateNoted(nEq, nT, err)
    \/ Cleanup
    \/ ProcessExit

\* a program that sets the device up, allocates buffers and exits
NextTeardown ==
    \/ \E f \in InitChoices : InitializeNoted(f)
    \/ \E nEq \in 1..MaxEq, nT \in StepCounts, err \in BOOLEAN : Allocate(nEq, nT, err)
    \/ Cleanup
    \/ ReadState
    \/ ProcessExitNoted

\* the sessions the step loop is run for
LoopReqs == [nEq : 1..MaxLoopEq, n_steps : 1..MaxLoopSteps, dt : 1..MaxStep]
InitLoop == InitComponents /\ req \in LoopReqs
NextLoop ==
    \/ LoopStart
    \/ LoopWriteParams
    \/ LoopWriteTimeControl
    \/ LoopDispatch
    \/ LoopBarrier
    \/ LoopRead

\* a program whose kernel generation and compilation fail now and then
NextCache ==
    \/ \E b \in Backends : Construct(b)
    \/ \E b \in Backends : Destroy(b)
    \/ \E b \in Backends, sys \in Systems : SolveFaulty(b, sys)

\* the coupled builtin systems with the smallest number of equations each
\* couples, and STATE contents before the dispatch
KernelReqs ==
    { [name |-> "harmonic", n |-> 2, state |-> st] : st \in [0..1 -> 1..MaxStateValue] }
    \cup { [name |-> "vanderpol", n |-> 2, state |-> st] : st \in [0..1 -> 1..MaxStateValue] }
    \cup { [name |-> "lorenz", n |-> 3, state |-> st] : st \in [0..2 -> 1..MaxStateValue] }
InitKernel == InitComponents /\ req \in KernelReqs
NextKernel ==
    \/ KernelDispatch
    \/ \E i \in 0..(4 * work_groups(req.n) - 1) : KernelLoad(i)
    \/ \E i \in 0..(4 * work_groups(req.n) - 1) : KernelStore(i)

\* exponential decay with y0 = 1.0, lambda = 2, dt = 0.01 and tf = 1.0, the
\* host backend with either stepper
CompareReqs == [stepper : {"euler", "rk45"}, y0 : {10 ^ 9}, lambda : {2},
                dt : {1}, tf : {100}]
InitCompare == InitComponents /\ req \in CompareReqs
NextCompare ==
    \/ CompareStart
    \/ HostStep
    \/ DeviceStep
    \/ AccuracyAnalysis

Next == NextBackend \/ NextMgr

\* every call of the model
Spec == Init /\ [][Next]_vars
\* a program that drives GPUEulerBackend instances
SpecBackend == Init /\ [][NextBackend]_vars
\* a program that drives one GPUBufferManager through its public interface
SpecMgr == Init /\ [][NextMgr]_vars
\* the comparison program: one problem, both backends
SpecSteps == InitSteps /\ [][NextSteps]_vars
\* one backend, session after session, on a working device
SpecSession == Init /\ [][NextSession]_vars
\* setup_uniforms applied to one system
SpecUniforms == InitUniforms /\ [][NextUniforms]_vars
\* a program that compiles kernels through the context directly
SpecCompile == Init /\ [][NextCompile]_vars
\* a program that uses the RHS registry and solves builtin systems
SpecRegistry == Init /\ [][NextRegistry]_vars
SpecBuffers == Init /\ [][NextBuffers]_vars
SpecTeardown == Init /\ [][NextTeardown]_vars
\* the work-items of one dispatch
SpecKernel == InitKernel /\ [][NextKernel]_vars
SpecCache == Init /\ [][NextCache]_vars
\* the integration loop of one solve(), call by call
SpecLoop == InitLoop /\ [][NextLoop]_vars
\* a program that composes a kernel source from a template and a definition
SpecTemplate == InitTemplate /\ [][NextTemplate]_vars
\* the comparison program on exponential decay, step by step
SpecCompare == InitCompare /\ [][NextCompare]_vars

(* ------------------------------- claims -------------------------------- *)
\* the context holds the descriptor, the GBM device, the display and the
\* EGL context
HoldsAll(c) == /\ c.dri_fd # NoFd
               /\ c.gbm # NoHandle
               /\ c.display # NoHandle
               /\ c.context # NoHandle
\* the context holds none of them
HoldsNone(c) == /\ c.dri_fd = NoFd
                /\ c.gbm = NoHandle
                /\ c.display = NoHandle
                /\ c.context = NoHandle
\* every live device resource is the one the context's field names
NothingOverwritten == /\ dev.fd \subseteq {ctx.dri_fd}
                      /\ dev.gbm \subseteq {ctx.gbm}
                      /\ dev.display \subseteq {ctx.display}
                      /\ dev.context \subseteq {ctx.context}

\* C1: once an initialize() has returned true, every later initialize()
\* returns true and acquires nothing, and device setup completes at most once.
C1_InitializeIdempotent ==
    /\ (last.op = "initialize" /\ last.preInit) => (last.ok /\ last.acquired = 0)
    /\ hist.setups <= 1
\* an initialize() call made after an earlier one had returned true
C1_Witness == last.op = "initialize" /\ last.preInit /\ last.ok

\* C2: every failing solve() leaves the caller's trajectory empty.
C2_FailedSolveLeavesEmptyTrajectory ==
    (last.op = "solve" /\ ~last.ok) => solution = <<>>

\* C3: within one backend, every resolution of a key yields the same program
\* and no key is compiled again after a compile for it has succeeded.
C3_CacheReusesProgram ==
    /\ ~hist.recompiled
    /\ \A b \in Backends : \A p, q \in hist.resolved[b] : p[1] = q[1] => p[2] = q[2]
\* a successful solve() whose kernel came from the cache
C3_Witness == last.op = "solve" /\ last.ok /\ last.hit

\* C4: when a successful solve() returns, the backend's buffer manager holds
\* no buffers.
C4_SolveReleasesBuffers ==
    (last.op = "solve" /\ last.ok) =>
        (~mgr[last.m].allocated /\ Handles(mgr[last.m]) = {})

\* C5: an allocate_standard_buffers() that detects an error returns false with
\* all four handles 0 and none of its buffers live.
C5_FailedAllocateRollsBack ==
    (last.op = "allocate" /\ last.err) =>
        (~last.ok /\ Handles(mgr[last.m]) = {} /\ Owned(last.m) = {})
\* an allocate_standard_buffers() that detected an error
C5_Witness == last.op = "allocate" /\ last.err

\* C6: a manager never owns more than four live buffers, and every live
\* buffer it owns is still named by one of its handles.
C6_NoLeakAcrossAllocates ==
    \A m \in Managers : Cardinality(Owned(m)) <= 4 /\ Owned(m) \subseteq Handles(mgr[m])
\* a successful allocate on a manager that already held buffers
C6_Witness == last.op = "allocate" /\ last.ok /\ last.prePhase = "allocated"

\* C7: cleanup() leaves all handles 0 and the set not allocated, a cleanup()
\* of a cleaned or never allocated manager changes nothing, and no buffer
\* name is deleted twice.
C7_CleanupIdempotent ==
    /\ [](~hist.badDelete)
    /\ [](\A m \in Managers : hist.phase[m] = "cleaned" =>
              (Handles(mgr[m]) = {} /\ ~mgr[m].allocated))
    /\ [][(last'.op = "cleanup" /\ hist.phase[last'.m] \in {"fresh", "cleaned"}) =>
              (mgr' = mgr /\ bufLive' = bufLive)]_vars
\* a cleanup() of a manager whose last call was cleanup()
C7_Witness == last.op = "cleanup" /\ last.prePhase = "cleaned"

\* C8: a read of a buffer set that is not allocated (new, cleaned, or after an
\* allocate that failed) returns an empty result and touches no buffer.
C8_ReadOfUnallocatedIsEmpty ==
    (last.op \in {"read_state", "read_timeseries"} /\ last.prePhase # "allocated") =>
        (last.readLen = 0 /\ ~last.accessed)

\* C9: the context is never half-initialized: it is initialized and holds all
\* four resources or uninitialized and holds none, and no initialize()
\* overwrites a resource that is still held.
C9_NeverHalfInitialized ==
    /\ \/ ctx.initialized /\ HoldsAll(ctx)
       \/ ~ctx.initialized /\ HoldsNone(ctx)
    /\ NothingOverwritten

\* C10: once initialized, the context stays initialized and is set up once;
\* no solve() and no backend destructor tears it down; the one teardown is
\* that of process exit.
C10_ContextPersists ==
    /\ (hist.everInitOk /\ ~exited) => (ctx.initialized /\ HoldsAll(ctx))
    /\ hist.setups <= 1
    /\ hist.teardowns = (IF exited THEN 1 ELSE 0)
\* a backend has been destroyed after the context was set up
C10_Witness == last.op = "destroy" /\ hist.everInitOk /\ ctx.initialized

\* the largest k with k * d <= a
FloorDiv(a, d) == CHOOSE k \in 0..a : k * d <= a /\ a < (k + 1) * d

\* the last call was a solve() or a CPUBackend::solve that succeeded
SolveSucceeded == last.ok /\ last.op \in {"solve", "cpu_solve"}

\* C11: for 0 < dt <= tf - t0 a successful solve, by the device backend and
\* by the host backend, returns floor((tf - t0) / dt) + 1 entries, each of
\* length |y0|.
C11_StepCount ==
    (SolveSucceeded /\ req.dt <= req.tf) =>
        /\ Len(solution) = FloorDiv(req.tf, req.dt) + 1
        /\ \A k \in DOMAIN solution :
               solution[k].len = req.nEq /\ solution[k].read = req.nEq
\* a successful device solve whose dt does not divide tf - t0
C11_Witness ==
    /\ last.op = "solve" /\ last.ok
    /\ req.dt <= req.tf /\ req.tf % req.dt # 0

\* C12: the first entry of the trajectory of a successful solve is the
\* initial condition: no integration update was applied before it was recorded.
C12_FirstEntryIsInitialCondition ==
    SolveSucceeded => (solution[1].dispatches = 0 /\ solution[1].len = req.nEq)

\* what solve() returns for the arguments r on a backend and a device that
\* have not been used before
FreshTrajectory(r) ==
    LET nSteps == n_steps_of(0, r.tf, r.dt)
        a == allocate_standard_buffers(MgrInit, "backend", {}, r.nEq, nSteps, FALSE)
    IN  integration_loop(a.mgr, r.nEq, nSteps)

C16_CustomSnippetCompiledAndCached ==
    (last.op = "solve" /\ req.sys.gpu /\ req.sys.builtin = "" /\ req.sys.code # "") =>
        /\ last.stage # "kernel"
        /\ cache[last.m][cache_key(req.sys)] # NoHandle

\* C13: with an explicit uniform vector of length len, slots [0, min(len, 16))
\* hold its first entries, slots [min(len, 16), 16) are zero and no slot
\* outside the 16 is written.
C13_ExplicitUniforms ==
    (res.op = "setup_uniforms" /\ req.sys.gpu /\ req.sys.gpu_uniforms # <<>>) =>
        /\ ~res.thrown
        /\ DOMAIN res.uniforms = 1..16
        /\ \A i \in 1..16 :
               res.uniforms[i] = IF i <= Len(req.sys.gpu_uniforms)
                                 THEN req.sys.gpu_uniforms[i] ELSE 0
        /\ res.writes \subseteq 0..15
\* setup_uniforms was given more than 16 explicit uniforms
C13_Witness ==
    res.op = "setup_uniforms" /\ req.sys.gpu /\ Len(req.sys.gpu_uniforms) > 16

\* the value slot i (from 1) gets by name: the float of the parameter named
\* by the i-th declared uniform, 0 when there is none
ByName(sys, i) ==
    LET names == registry[sys.builtin].uniform_names
    IN  IF i <= Len(names) /\ names[i] \in DOMAIN sys.parameters
        THEN F32(sys.parameters[names[i]]) ELSE 0

\* C14: without an explicit uniform vector, slot i holds the float32 of
\* system.parameters[name i] in declaration order, or 0 when the name is
\* absent; with an explicit vector the parameter map is not consulted.
C14_UniformsByName ==
    /\ (res.op = "setup_uniforms" /\ req.sys.gpu /\ req.sys.gpu_uniforms = <<>>
            /\ req.sys.builtin # "" /\ has_rhs(req.sys.builtin)) =>
           /\ ~res.thrown
           /\ \A i \in 1..16 : res.uniforms[i] = ByName(req.sys, i)
    /\ (res.op = "setup_uniforms" /\ req.sys.gpu /\ req.sys.gpu_uniforms # <<>>) =>
           /\ ~res.consulted
           /\ \A i \in 1..16 : i <= Len(req.sys.gpu_uniforms) =>
                  res.uniforms[i] = req.sys.gpu_uniforms[i]
\* the lorenz uniforms were looked up in a map that defines beta with a value
\* float cannot hold, and not sigma
C14_Witness ==
    /\ res.op = "setup_uniforms" /\ req.sys.gpu /\ req.sys.gpu_uniforms = <<>>
    /\ req.sys.builtin = "lorenz"
    /\ DOMAIN req.sys.parameters = {"beta", "lambda"}
    /\ req.sys.parameters["beta"] = 16777217
    /\ res.uniforms[3] = 16777216 /\ res.uniforms[1] = 0

\* C17: compile_compute_shader returns 0 exactly when the context is not
\* initialized or the compile or the link fails; a failed compile deletes the
\* shader object, a failed link the program and the shader object, so no
\* object of a failed call stays live.
C17_CompileFailureLeavesNothing ==
    /\ shaderLive = {}
    /\ res.op = "compile" =>
           /\ res.program = NoHandle <=> (~res.init \/ res.comp # "ok")
           /\ ~res.init => res.created = {}
           /\ (res.init /\ res.comp = "compile_error") => res.deleted = {"shader"}
           /\ (res.init /\ res.comp = "link_error") => res.deleted = {"program", "shader"}
           /\ res.program = NoHandle => (res.created \subseteq res.deleted
                                           /\ progLive = res.before)
\* a compile_compute_shader() call whose link failed
C17_Witness == res.op = "compile" /\ res.init /\ res.comp = "link_error"

\* the names registered in reg
Registered(reg) == {n \in DOMAIN reg : reg[n] # NoDef}
\* the elements of a sequence
Range(q) == {q[i] : i \in DOMAIN q}

\* C18: register_rhs makes the name map to the definition given last and
\* leaves every other entry as it was; list_available returns exactly the
\* registered names, none twice; has_rhs does not change the registry.
C18_RegistryLastWriterWins ==
    /\ res.op = "register_rhs" =>
           /\ registry[res.name] = res.definition
           /\ \A n \in RhsNames \ {res.name} : registry[n] = res.before[n]
    /\ res.op = "list_available" =>
           /\ Range(res.list) = Registered(res.before)
           /\ Len(res.list) = Cardinality(Registered(res.before))
           /\ registry = res.before
    /\ res.op = "has_rhs" =>
           /\ registry = res.before
           /\ res.found <=> res.name \in Registered(res.before)
\* a register_rhs() on a name that already had another definition
C18_Witness ==
    /\ res.op = "register_rhs"
    /\ res.before[res.name] \notin {NoDef, res.definition}
    /\ \E n \in RhsNames \ {res.name} : registry[n] \notin {NoDef, RegistryInit[n]}

\* C19: get_rhs fails with not-found exactly when has_rhs is false for the
\* name, and a failing get_rhs leaves the registry as it was; a solve() whose
\* builtin name is not registered fails at the kernel and stores nothing in
\* the cache.
C19_MissingNameFails ==
    /\ res.op = "get_rhs" =>
           /\ res.thrown <=> ~res.had
           /\ res.thrown <=> res.name \notin Registered(res.before)
           /\ ~res.thrown => res.definition = res.before[res.name]
           /\ res.thrown => registry = res.before
    /\ (last.op = "solve" /\ req.sys.builtin # "" /\ ~req.registered) =>
           /\ ~last.ok
           /\ last.stage = "kernel"
           /\ cache[last.m] = req.before
\* a failed get_rhs() after a solve() that failed on the same missing name
C19_Witness ==
    /\ res.op = "get_rhs" /\ res.thrown /\ res.name = "nosuch"
    /\ last.op = "solve" /\ req.sys = SysUnknown /\ ~req.registered
    /\ \E k \in DOMAIN cache[last.m] : cache[last.m][k] # NoHandle

\* the template with its two tokens replaced where they stand in the template
Composed(t, decls, code) ==
    LET pu == find(t, TokenUniforms)
        pr == find(t, TokenRhs)
    IN  IF pu < pr
        THEN SubSeq(t, 1, pu - 1) \o decls \o SubSeq(t, pu + 17, pr - 1) \o code
                 \o SubSeq(t, pr + 16, Len(t))
        ELSE SubSeq(t, 1, pr - 1) \o code \o SubSeq(t, pr + 16, pu - 1) \o decls
                 \o SubSeq(t, pu + 17, Len(t))

\* C20: on a template that contains each token exactly once, the composed
\* source is the template with the uniform token replaced by one declaration
\* line per uniform name, in order, and the RHS token replaced by the snippet;
\* every other character of the template is kept in place.
C20_SubstitutionExact ==
    (/\ res.op = "substitute_rhs"
     /\ Cardinality(Occurrences(req.template_code, TokenUniforms)) = 1
     /\ Cardinality(Occurrences(req.template_code, TokenRhs)) = 1) =>
        res.result = Composed(req.template_code,
                              generate_uniform_declarations(req.rhs.uniform_names),
                              req.rhs.glsl_code)

\* C23: after a successful allocate_standard_buffers(n_equations, n_steps, ..)
\* the STATE, PARAMS and TIME_CONTROL buffers exist and are live, and the
\* TIMESERIES buffer exists exactly when n_steps > 1, also when the manager
\* held a session with n_steps > 1 before.
C23_TimeseriesOnlyForManySteps ==
    (last.op = "allocate" /\ last.ok) =>
        LET mg == mgr[StandaloneMgr]
        IN  /\ mg.state_buffer # NoHandle /\ <<StandaloneMgr, mg.state_buffer>> \in bufLive
            /\ mg.param_buffer # NoHandle /\ <<StandaloneMgr, mg.param_buffer>> \in bufLive
            /\ mg.time_control_buffer # NoHandle
            /\ <<StandaloneMgr, mg.time_control_buffer>> \in bufLive
            /\ mg.timeseries_buffer # NoHandle <=> res.n_timesteps > 1
            /\ mg.timeseries_buffer # NoHandle =>
                   <<StandaloneMgr, mg.timeseries_buffer>> \in bufLive
\* a successful one-step session on a manager that held a longer session
C23_Witness ==
    /\ last.op = "allocate" /\ last.ok
    /\ res.n_timesteps = 1
    /\ res.before.allocated /\ res.before.timeseries_buffer # NoHandle

\* C27: is_allocated() is true exactly when the STATE, PARAMS and
\* TIME_CONTROL handles are all non-zero.
C27_AllocatedIffHandles ==
    LET mg == mgr[StandaloneMgr]
    IN  mg.allocated <=> (/\ mg.state_buffer # NoHandle
                          /\ mg.param_buffer # NoHandle
                          /\ mg.time_control_buffer # NoHandle)

\* a sequence in the opposite order
Reverse(q) == [i \in 1..Len(q) |-> q[Len(q) + 1 - i]]

\* C24: the teardown of an initialized context releases the context, the
\* display, the GBM device and the device file, the reverse of the order in
\* which initialize() acquired them, each once, and leaves the context not
\* initialized.
C24_TeardownReversesAcquisition ==
    (res.op = "exit" /\ res.wasInitialized) =>
        /\ res.order = <<"fd", "gbm", "display", "context">>
        /\ res.released = Reverse(res.order)
        /\ Cardinality(Range(res.released)) = Len(res.released)
        /\ ~ctx.initialized
        /\ \A kind \in Range(res.released) :
               Cardinality(res.devBefore[kind] \ dev[kind]) = 1
\* the process exits with an initialized context and allocated buffers
C24_Witness ==
    /\ res.op = "exit" /\ res.wasInitialized
    /\ mgr[StandaloneMgr].allocated

\* the two replacements of substitute_rhs made in the opposite order: the RHS
\* token first, the uniform token second
SubstituteRhsFirst(template_code, rhs) ==
    LET uniform_decls == generate_uniform_declarations(rhs.uniform_names)
        pos1    == find(template_code, TokenRhs)
        result1 == IF pos1 # 0 THEN replace(template_code, pos1, 16, rhs.glsl_code)
                   ELSE template_code
        pos2    == find(result1, TokenUniforms)
    IN  IF pos2 # 0 THEN replace(result1, pos2, 17, uniform_decls) ELSE result1

\* C25: substitution is order-independent: the composed source is the same
\* when the RHS token is replaced first and the uniform token second, also
\* when the inserted declarations or the snippet contain a token.
C25_SubstitutionOrderIndependent ==
    res.op = "substitute_rhs" =>
        res.result = SubstituteRhsFirst(req.template_code, req.rhs)

\* the calls of kind e among the first n calls of the loop
Count(e, n) == Cardinality({i \in 1..n : res.events[i].e = e})

\* C22: in every step of the loop the TIME_CONTROL and PARAMS writes for that
\* step come first, then one dispatch, then the barrier, then the readback
\* that becomes trajectory[step]; no readback and no further dispatch happens
\* before the barrier of a dispatch, and a finished loop has made n_steps
\* dispatches and n_steps readbacks.
C22_StepLoopOrdering ==
    res.op = "loop" =>
        /\ \A i \in DOMAIN res.events :
               LET ev   == res.events[i]
                   step == (i - 1) \div 5
                   at   == (i - 1) % 5
               IN  /\ at \in {0, 1} => ev.e \in {"params", "time_control"}
                   /\ at = 1 => ev.e # res.events[i - 1].e
                   /\ ev.e = "params" => (ev.step = step /\ ev.t_current = step * req.dt)
                   /\ ev.e = "time_control" => ev.current_step = step
                   /\ at = 2 <=> ev.e = "dispatch"
                   /\ at = 3 <=> ev.e = "barrier"
                   /\ at = 4 <=> ev.e = "read"
                   /\ ev.e = "read" => ev.index = step
                   /\ ev.e \in {"read", "dispatch"} =>
                          Count("barrier", i - 1) = Count("dispatch", i - 1)
        /\ res.pc = "done" =>
               /\ Count("dispatch", Len(res.events)) = req.n_steps
               /\ Count("read", Len(res.events)) = req.n_steps
               /\ Len(res.events) = 5 * req.n_steps
\* a loop of several steps has finished
C22_Witness == res.op = "loop" /\ res.pc = "done" /\ req.n_steps = MaxLoopSteps

\* C26: each step dispatches ceil(n_equations / 4) work-groups: their
\* invocations, 4 per work-group, cover every equation index and fewer than 4
\* of them have no equation; 4 equations give 1 work-group and 8 give 2.
C26_WorkGroupsCoverEquations ==
    \A i \in (IF res.op = "loop" THEN DOMAIN res.events ELSE {}) :
        res.events[i].e = "dispatch" =>
            LET wg          == res.events[i].work_groups
                invocations == 0..(4 * wg - 1)
                equations   == 0..(req.nEq - 1)
            IN  /\ equations \subseteq invocations
                /\ Cardinality(invocations \ equations) < 4
                /\ wg * 4 >= req.nEq /\ (wg - 1) * 4 < req.nEq
                /\ req.nEq = 4 => wg = 1
                /\ req.nEq = 8 => wg = 2
\* a dispatch for a number of equations that is not a multiple of 4
C26_Witness ==
    /\ res.op = "loop" /\ req.nEq = 9
    /\ \E i \in DOMAIN res.events : res.events[i].e = "dispatch"

\* C29: host and device trajectories are aligned: the device backend records
\* entry k (from 0) after exactly k Euler updates, as many as CPUBackend has
\* applied when it records its entry k.
C29_TrajectoriesAligned ==
    (last.op = "solve" /\ last.ok) =>
        LET host == cpu_solve(0, req.tf, req.dt, req.nEq)
        IN  /\ Len(solution) = Len(host)
            /\ \A k \in DOMAIN solution :
                   /\ solution[k].dispatches = k - 1
                   /\ solution[k].dispatches = host[k].dispatches

\* C28: every entry of a backend's program cache is the non-zero name of a
\* live program that was compiled and linked successfully for its key; a
\* solve() whose generation or compile failed stores nothing, so the next
\* solve() for the key generates and compiles again.
C28_CacheHoldsCompiledPrograms ==
    /\ \A b \in Backends : \A key \in CacheKeys :
           cache[b][key] # NoHandle =>
               /\ cache[b][key] \in progLive
               /\ key \in hist.compiledOk[b]
               /\ <<key, cache[b][key]>> \in hist.resolved[b]
    /\ (last.op = "solve" /\ last.stage = "kernel") =>
           /\ cache[last.m] = req.before
           /\ cache_key(req.sys) # NoKey => cache[last.m][cache_key(req.sys)] = NoHandle
           /\ (use_builtin_rhs(req.sys) /\ has_rhs(req.sys.builtin)) =>
                  get_or_compile_shader(cache[last.m], req.sys, ctx, progLive,
                                        TRUE, "ok").compiled
\* a solve() of a builtin system failed in the compiler while the cache
\* holds the program of another system
C28_Witness ==
    /\ last.op = "solve" /\ last.stage = "kernel"
    /\ req.sys = SysExp
    /\ cache[last.m]["vanderpol"] # NoHandle

C30_DispatchOrderIndependent ==
    (res.op = "kernel" /\ \A i \in DOMAIN res.pc : res.pc[i] = "done") =>
        \A i \in 0..(req.n - 1) :
            res.state[i] = kernel_y_new(req.name, i, req.state, req.n)

====
